---- MODULE Spec2Model ----
(***************************************************************************)
(* A model of monitor.py: the status extraction pipeline parse_status      *)
(* (JSON-LD locator, inline-script extractor, DOM heuristics, assembler)   *)
(* and the change-detection run check_products.                            *)
(*                                                                         *)
(* Strings are sequences of one-character strings, so that lower(),        *)
(* strip(), substring tests and number formatting are computed.  A parsed  *)
(* JSON value (and every Python value the pipeline passes around) is a     *)
(* record [t, v, kids]: t is the type, v the text of a scalar, kids the    *)
(* ordered members of a mapping (with keys) or a list.  JSON numbers are   *)
(* integers, kept as their decimal text.                                   *)
(***************************************************************************)
EXTENDS Integers, Sequences, FiniteSets, TLC

----------------------------------------------------------------------------
(* Strings *)

UpperCase == <<"A","B","C","D","E","F","G","H","I","J","K","L","M",
               "N","O","P","Q","R","S","T","U","V","W","X","Y","Z">>
LowerCase == <<"a","b","c","d","e","f","g","h","i","j","k","l","m",
               "n","o","p","q","r","s","t","u","v","w","x","y","z">>
Whitespace == {" ", "\n", "\t"}

\* str.lower() on one character
LowerChar(c) ==
  IF \E i \in 1..Len(UpperCase) : UpperCase[i] = c
    THEN LowerCase[CHOOSE i \in 1..Len(UpperCase) : UpperCase[i] = c]
    ELSE c

\* str.lower()
Lower(s) == [i \in 1..Len(s) |-> LowerChar(s[i])]

\* needle in hay
Contains(hay, needle) ==
  \E i \in 0..(Len(hay) - Len(needle)) : SubSeq(hay, i + 1, i + Len(needle)) = needle

\* str.strip()
Strip(s) ==
  LET keep == {i \in 1..Len(s) : s[i] \notin Whitespace}
  IN IF keep = {} THEN <<>>
     ELSE SubSeq(s, CHOOSE i \in keep : \A j \in keep : i <= j,
                    CHOOSE i \in keep : \A j \in keep : j <= i)

\* str.rstrip("/")
RStripSlash(s) ==
  LET keep == {i \in 1..Len(s) : s[i] # "/"}
  IN IF keep = {} THEN <<>>
     ELSE SubSeq(s, 1, CHOOSE i \in keep : \A j \in keep : j <= i)

\* str.split("/")[-1]
LastSegment(s) ==
  LET slashes == {i \in 1..Len(s) : s[i] = "/"}
  IN IF slashes = {} THEN s
     ELSE SubSeq(s, (CHOOSE i \in slashes : \A j \in slashes : j <= i) + 1, Len(s))

\* sep.join(parts) for the two-part joins get_text(" ") makes
JoinSpace(a, b) ==
  IF a = <<>> THEN b ELSE IF b = <<>> THEN a ELSE a \o <<" ">> \o b

----------------------------------------------------------------------------
(* Unbounded naturals (Python's int) as little-endian sequences of limbs  *)
(* in base LimbBase with no high zero limb.  Small factors and divisors   *)
(* (a power of two below LimbBase, a power of ten up to 10^5) are machine  *)
(* integers.                                                               *)

LimbBase == 2^12

RECURSIVE BNorm(_)
BNorm(x) == IF x = <<>> THEN <<>>
            ELSE IF x[Len(x)] = 0 THEN BNorm(SubSeq(x, 1, Len(x) - 1)) ELSE x

RECURSIVE BAddC(_, _, _)
BAddC(x, y, c) ==
  IF x = <<>> /\ y = <<>> THEN (IF c = 0 THEN <<>> ELSE <<c>>)
  ELSE LET a == IF x = <<>> THEN 0 ELSE Head(x)
           b == IF y = <<>> THEN 0 ELSE Head(y)
           s == a + b + c
       IN <<s % LimbBase>> \o BAddC(IF x = <<>> THEN <<>> ELSE Tail(x),
                               IF y = <<>> THEN <<>> ELSE Tail(y), s \div LimbBase)

BAdd(x, y) == BAddC(x, y, 0)

\* x < y
RECURSIVE BLess(_, _)
BLess(x, y) ==
  IF Len(x) # Len(y) THEN Len(x) < Len(y)
  ELSE IF x = <<>> THEN FALSE
  ELSE IF x[Len(x)] # y[Len(y)] THEN x[Len(x)] < y[Len(y)]
  ELSE BLess(BNorm(SubSeq(x, 1, Len(x) - 1)), BNorm(SubSeq(y, 1, Len(y) - 1)))

\* x * k for a machine integer k
RECURSIVE BMulC(_, _, _)
BMulC(x, k, c) ==
  IF x = <<>> THEN (IF c = 0 THEN <<>> ELSE <<c % LimbBase>> \o BMulC(<<>>, k, c \div LimbBase))
  ELSE LET p == Head(x) * k + c
       IN <<p % LimbBase>> \o BMulC(Tail(x), k, p \div LimbBase)

BMulSmall(x, k) == BNorm(BMulC(x, k, 0))

\* divmod(x, k) for a machine integer k > 0
RECURSIVE BDivSmall(_, _)
BDivSmall(x, k) ==
  IF x = <<>> THEN [q |-> <<>>, r |-> 0]
  ELSE LET hi  == BDivSmall(Tail(x), k)
           cur == hi.r * LimbBase + Head(x)
       IN [q |-> BNorm(<<cur \div k>> \o hi.q), r |-> cur % k]

\* x * 2^n
BShl(x, n) ==
  IF x = <<>> THEN <<>>
  ELSE [i \in 1..(n \div 12) |-> 0] \o BMulSmall(x, 2^(n % 12))

\* int.bit_length() of a limb
RECURSIVE LimbBits(_)
LimbBits(l) == IF l = 0 THEN 0 ELSE 1 + LimbBits(l \div 2)

\* int.bit_length()
BitLen(x) == IF x = <<>> THEN 0 ELSE 12 * (Len(x) - 1) + LimbBits(x[Len(x)])

RECURSIVE BFromNat(_)
BFromNat(n) == IF n = 0 THEN <<>> ELSE <<n % LimbBase>> \o BFromNat(n \div LimbBase)

Digits == <<"0","1","2","3","4","5","6","7","8","9">>
IsDigit(c) == \E i \in 1..10 : Digits[i] = c
DigitVal(c) == (CHOOSE i \in 1..10 : Digits[i] = c) - 1

\* int() of a decimal text of at most four digits
SmallFromDec(s) ==
  LET d(i) == IF i <= Len(s) THEN DigitVal(s[Len(s) + 1 - i]) ELSE 0
  IN d(1) + 10 * d(2) + 100 * d(3) + 1000 * d(4)

\* int("123"): decimal text to a natural, four digits at a time
RECURSIVE BFromDec(_)
BFromDec(s) ==
  IF Len(s) <= 4 THEN BFromNat(SmallFromDec(s))
  ELSE BAdd(BMulSmall(BFromDec(SubSeq(s, 1, Len(s) - 4)), 10000),
            BFromNat(SmallFromDec(SubSeq(s, Len(s) - 3, Len(s)))))

\* the four decimal digits of n < 10000
FourDigits(n) ==
  <<Digits[(n \div 1000) + 1], Digits[((n \div 100) % 10) + 1],
    Digits[((n \div 10) % 10) + 1], Digits[(n % 10) + 1]>>

\* str(n) for a natural: zero-padded, in groups of four digits
RECURSIVE BToDecRec(_)
BToDecRec(x) ==
  IF x = <<>> THEN <<>>
  ELSE LET dm == BDivSmall(x, 10000)
       IN BToDecRec(dm.q) \o FourDigits(dm.r)

\* str(n) for a natural
BToDec(x) ==
  LET padded == BToDecRec(x)
      nz     == {i \in 1..Len(padded) : padded[i] # "0"}
  IN IF nz = {} THEN <<"0">>
     ELSE SubSeq(padded, CHOOSE i \in nz : \A j \in nz : i <= j, Len(padded))

\* round-half-even of (x + sticky) / 2^n, sticky marking a non-zero part below x
RoundShr(x, n, sticky) ==
  IF n = 0 THEN x
  ELSE LET w    == n \div 12
           dm   == BDivSmall(IF w >= Len(x) THEN <<>> ELSE SubSeq(x, w + 1, Len(x)),
                             2^(n % 12))
           q    == dm.q
           low  == BNorm(SubSeq(x, 1, IF w < Len(x) THEN w ELSE Len(x)) \o <<dm.r>>)
           half == BShl(<<1>>, n - 1)
           odd  == q # <<>> /\ Head(q) % 2 = 1
           up   == \/ BLess(half, low)
                   \/ low = half /\ (sticky \/ odd)
       IN IF up THEN BAdd(q, <<1>>) ELSE q

----------------------------------------------------------------------------
(* Python float arithmetic of the money conversion *)

\* a / b for an int a > 0 and b = 10^fd: the correctly rounded IEEE double, as
\* the pair (m, e) standing for m * 2^e, m of 53 bits (2^53 when rounding carries)
FloatDiv(a, b) ==
  LET s  == IF BitLen(a) >= LimbBits(b) + 55 THEN 0 ELSE LimbBits(b) + 55 - BitLen(a)
      dm == BDivSmall(BShl(a, s), b)
      d  == BitLen(dm.q) - 53
  IN [m |-> RoundShr(dm.q, d, dm.r # 0), e |-> d - s]

\* the digits of round-half-even(f * 10^fd): what format(f, ".{fd}f") prints,
\* before the decimal point is placed
FixedDigits(f, fd) ==
  LET x == BMulSmall(f.m, 10^fd)
  IN BToDec(IF f.e >= 0 THEN BShl(x, f.e) ELSE RoundShr(x, 0 - f.e, FALSE))

\* a digit string with the decimal point placed fd digits from the right
PlacePoint(ds, fd) ==
  LET pad == IF Len(ds) > fd THEN ds ELSE [i \in 1..(fd + 1 - Len(ds)) |-> "0"] \o ds
  IN IF fd = 0 THEN pad
     ELSE SubSeq(pad, 1, Len(pad) - fd) \o <<".">> \o SubSeq(pad, Len(pad) - fd + 1, Len(pad))

----------------------------------------------------------------------------
(* Parsed JSON values and the Python values built from them *)

JNull == [t |-> "null", v |-> <<>>, kids |-> <<>>]
JBool(b) == [t |-> "bool", v |-> IF b THEN <<"1">> ELSE <<"0">>, kids |-> <<>>]
JStr(s) == [t |-> "str", v |-> s, kids |-> <<>>]
\* s: the decimal text of an integer, "-" first when negative
JNum(s) == [t |-> "num", v |-> s, kids |-> <<>>]
Mem(key, val) == [k |-> key, val |-> val]
\* members: a sequence of Mem(key, value) with distinct keys, in document order
JObj(members) == [t |-> "obj", v |-> <<>>, kids |-> members]
JArr(items) == [t |-> "arr", v |-> <<>>,
                kids |-> [i \in 1..Len(items) |-> Mem("", items[i])]]
EmptyDict == JObj(<<>>)

IsNone(j) == j.t = "null"
IsDict(j) == j.t = "obj"
IsList(j) == j.t = "arr"
IsStr(j) == j.t = "str"

NumNegative(j) == j.v # <<>> /\ j.v[1] = "-"
NumDigits(j) == IF NumNegative(j) THEN Tail(j.v) ELSE j.v
NumIsZero(j) == \A i \in 1..Len(NumDigits(j)) : NumDigits(j)[i] = "0"

\* bool(x)
Truthy(j) ==
  CASE j.t = "null" -> FALSE
    [] j.t = "bool" -> j.v = <<"1">>
    [] j.t = "num"  -> ~NumIsZero(j)
    [] j.t = "str"  -> j.v # <<>>
    [] OTHER        -> j.kids # <<>>

\* key in d
Has(d, key) == \E i \in 1..Len(d.kids) : d.kids[i].k = key

\* d.get(key, default)
GetDefault(d, key, default) ==
  IF Has(d, key)
    THEN d.kids[CHOOSE i \in 1..Len(d.kids) : d.kids[i].k = key].val
    ELSE default

\* d.get(key)
Get(d, key) == GetDefault(d, key, JNull)

\* x > 0 for a number or a bool
Positive(j) ==
  IF j.t = "bool" THEN j.v = <<"1">> ELSE ~NumNegative(j) /\ ~NumIsZero(j)

\* repr(x) of a str() operand that is not itself a string; a mapping key is
\* written as one element
RECURSIVE PyRepr(_)
RECURSIVE PyReprKids(_, _, _)
PyReprKids(kids, i, isDict) ==
  IF i > Len(kids) THEN <<>>
  ELSE (IF i > 1 THEN <<",", " ">> ELSE <<>>)
       \o (IF isDict THEN <<"'", kids[i].k, "'", ":", " ">> ELSE <<>>)
       \o PyRepr(kids[i].val) \o PyReprKids(kids, i + 1, isDict)
PyRepr(j) ==
  CASE j.t = "null" -> <<"N","o","n","e">>
    [] j.t = "bool" -> IF j.v = <<"1">> THEN <<"T","r","u","e">> ELSE <<"F","a","l","s","e">>
    [] j.t = "num"  -> IF NumIsZero(j) THEN <<"0">> ELSE j.v
    [] j.t = "str"  -> <<"'">> \o j.v \o <<"'">>
    [] j.t = "obj"  -> <<"{">> \o PyReprKids(j.kids, 1, TRUE) \o <<"}">>
    [] OTHER        -> <<"[">> \o PyReprKids(j.kids, 1, FALSE) \o <<"]">>

\* str(x)
PyStr(j) == IF j.t = "str" THEN j.v ELSE PyRepr(j)

----------------------------------------------------------------------------
(* Script elements.  A script is [ld, body]: ld tells a JSON-LD type        *)
(* attribute; body.k tells what its text is:                               *)
(*   "none"      no text (tag.string is None or empty)                     *)
(*   "text"      text that is not JSON and starts with neither { nor [     *)
(*   "malformed" text starting with { or [ that json.loads rejects         *)
(*   "deep"      JSON nested deeper than the interpreter's recursion limit *)
(*   "json"      JSON that parses to body.data                             *)

Script(ld, k, data) == [ld |-> ld, body |-> [k |-> k, data |-> data]]

\* _extract_json_ld: the Product candidates, or the RecursionError json.loads
\* raises past the except clause
RECURSIVE ExtractJsonLd(_)
ExtractJsonLd(scripts) ==
  IF scripts = <<>> THEN [raised |-> FALSE, items |-> <<>>]
  ELSE LET tag  == Head(scripts)
           rest == ExtractJsonLd(Tail(scripts))
           raw  == tag.body.data
           mine == IF ~tag.ld \/ tag.body.k # "json" THEN <<>>
                   ELSE IF IsList(raw)
                     THEN SelectSeq([i \in 1..Len(raw.kids) |-> raw.kids[i].val], IsDict)
                   ELSE IF IsDict(raw) THEN <<raw>>
                   ELSE <<>>
       IN IF tag.ld /\ tag.body.k = "deep" THEN [raised |-> TRUE, items |-> <<>>]
          ELSE [raised |-> rest.raised, items |-> mine \o rest.items]

sProduct == <<"P","r","o","d","u","c","t">>

\* _parse_product_from_json_ld
ParseProductFromJsonLd(items) ==
  LET prods == {i \in 1..Len(items) : Get(items[i], "@type") = JStr(sProduct)}
  IN IF prods = {}
       THEN [raised |-> FALSE, availability |-> JNull, price |-> JNull, currency |-> JNull]
       ELSE
         LET entry  == items[CHOOSE i \in prods : \A j \in prods : i <= j]
             got    == Get(entry, "offers")
             offers == IF Truthy(got) THEN got ELSE EmptyDict
             first  == IF IsList(offers)
                         THEN (IF offers.kids # <<>> THEN offers.kids[1].val ELSE EmptyDict)
                         ELSE offers
             price  == Get(first, "price")
         IN IF ~IsDict(first)
              THEN [raised |-> TRUE, availability |-> JNull, price |-> JNull,
                    currency |-> JNull]
              ELSE [raised |-> FALSE,
                    availability |-> Get(first, "availability"),
                    price |-> IF IsNone(price) THEN JNull ELSE JStr(PyStr(price)),
                    currency |-> Get(first, "priceCurrency")]

----------------------------------------------------------------------------
(* Generic tree matcher *)

\* _find_variant_with_availability: the variant, or None
RECURSIVE FindVariantWithAvailability(_)
RECURSIVE FindVariantIn(_, _)
FindVariantIn(kids, i) ==
  IF i > Len(kids) THEN JNull
  ELSE LET found == FindVariantWithAvailability(kids[i].val)
       IN IF Truthy(found) THEN found ELSE FindVariantIn(kids, i + 1)
FindVariantWithAvailability(data) ==
  IF IsDict(data)
    THEN LET variant == Get(data, "masterVariant")
         IN IF /\ Has(data, "masterVariant") /\ IsDict(variant)
               /\ (Has(variant, "availability") \/ Has(variant, "prices"))
              THEN variant
            ELSE IF Has(data, "availability") /\ Has(data, "prices") /\ Has(data, "sku")
              THEN data
            ELSE FindVariantIn(data.kids, 1)
  ELSE IF IsList(data) THEN FindVariantIn(data.kids, 1)
  ELSE JNull

\* _find_sku_objects: every mapping whose sku is the target, parent before
\* children, in document order
RECURSIVE FindSkuObjects(_, _)
RECURSIVE FindSkuIn(_, _, _)
FindSkuIn(kids, i, sku) ==
  IF i > Len(kids) THEN <<>>
  ELSE FindSkuObjects(kids[i].val, sku) \o FindSkuIn(kids, i + 1, sku)
FindSkuObjects(data, sku) ==
  IF IsDict(data)
    THEN (IF Get(data, "sku") = sku THEN <<data>> ELSE <<>>) \o FindSkuIn(data.kids, 1, sku)
  ELSE IF IsList(data) THEN FindSkuIn(data.kids, 1, sku)
  ELSE <<>>

----------------------------------------------------------------------------
(* Inline-script extractor *)

\* the sort key of a SKU candidate, as a rank: (False, False) < (False, True)
\* < (True, False) < (True, True)
SortKey(item) ==
  (IF ~Has(item, "price") /\ ~Has(item, "prices") THEN 2 ELSE 0)
  + (IF ~Has(item, "isOnStock") /\ ~Has(item, "availableQuantity") THEN 1 ELSE 0)

\* a variant of SortedFirst without the sort
FirstFound(candidates) == candidates[1]

\* candidates.sort(key=...)[0]: list.sort is stable
SortedFirst(candidates) ==
  LET best == {i \in 1..Len(candidates) :
                 \A j \in 1..Len(candidates) : SortKey(candidates[i]) <= SortKey(candidates[j])}
  IN candidates[CHOOSE i \in best : \A j \in best : i <= j]

IsNatNum(j) == j.t = "num" /\ (~NumNegative(j) \/ NumIsZero(j))

\* f"{cent_amount / (10 ** fraction_digits):.{fraction_digits}f}": raised for
\* a TypeError (an operand that is no number) or a ValueError (a precision
\* that is negative or a bool).  fraction_digits is at most 5 here.
FormatMoney(cent, fd) ==
  IF ~IsNatNum(fd) \/ cent.t \notin {"num", "bool"}
    THEN [raised |-> TRUE, text |-> <<>>]
    ELSE LET n    == SmallFromDec(NumDigits(fd))
             a    == IF cent.t = "bool" THEN BFromNat(IF Truthy(cent) THEN 1 ELSE 0)
                     ELSE BFromDec(NumDigits(cent))
             ds   == IF a = <<>> THEN <<"0">> ELSE FixedDigits(FloatDiv(a, 10^n), n)
             sign == IF cent.t = "num" /\ NumNegative(cent) /\ a # <<>> THEN <<"-">> ELSE <<>>
         IN [raised |-> FALSE, text |-> sign \o PlacePoint(ds, n)]

sTwo == <<"2">>

\* the conversion of a money mapping {centAmount, fractionDigits, currencyCode}
ConvertMoney(value) ==
  LET cent_amount     == Get(value, "centAmount")
      fraction_digits == GetDefault(value, "fractionDigits", JNum(sTwo))
      currency        == Get(value, "currencyCode")
  IN IF ~IsNone(cent_amount) /\ ~IsNone(fraction_digits)
       THEN LET f == FormatMoney(cent_amount, fraction_digits)
            IN [raised |-> f.raised, price |-> JStr(f.text), currency |-> currency]
       ELSE [raised |-> FALSE, price |-> JNull, currency |-> currency]

\* what one script contributes: the triple returned, with the object the
\* extractor selected (sku_obj or variant) on the way
Yield(in_stock, price, currency) ==
  [kind |-> "yield", in_stock |-> in_stock, price |-> price, currency |-> currency,
   chosen |-> JNull]
Skipped ==
  [kind |-> "skip", in_stock |-> JNull, price |-> JNull, currency |-> JNull,
   chosen |-> JNull]
Raised ==
  [kind |-> "raise", in_stock |-> JNull, price |-> JNull, currency |-> JNull,
   chosen |-> JNull]
Chose(obj, out) == [out EXCEPT !.chosen = obj]

\* the SKU path on the selected candidate
SkuPath(sku_obj) ==
  LET price    == Get(sku_obj, "price")
      money    == IF IsDict(price) THEN ConvertMoney(price)
                  ELSE [raised |-> FALSE, price |-> JNull, currency |-> JNull]
      in_stock == IF Has(sku_obj, "isOnStock")
                    THEN JBool(Truthy(Get(sku_obj, "isOnStock"))) ELSE JNull
  IN IF money.raised THEN Raised ELSE Yield(in_stock, money.price, money.currency)

\* any(channel.get("isOnStock") and channel.get("availableQuantity", 0) > 0
\*     for channel in channels.values() if isinstance(channel, dict)),
\* evaluated in order: "T", "F", or "raise" for the TypeError of a quantity
\* that does not compare with 0
RECURSIVE AnyChannel(_, _)
AnyChannel(kids, i) ==
  IF i > Len(kids) THEN "F"
  ELSE LET channel == kids[i].val
           qty     == GetDefault(channel, "availableQuantity", JNum(<<"0">>))
       IN IF ~IsDict(channel) \/ ~Truthy(Get(channel, "isOnStock"))
            THEN AnyChannel(kids, i + 1)
          ELSE IF qty.t \notin {"num", "bool"} THEN "raise"
          ELSE IF Positive(qty) THEN "T"
          ELSE AnyChannel(kids, i + 1)

sUS == <<"U","S">>

\* the variant path
VariantPath(variant) ==
  LET avail    == GetDefault(variant, "availability", EmptyDict)
      channels == IF IsDict(avail) THEN GetDefault(avail, "channels", EmptyDict) ELSE JNull
      any      == IF Truthy(channels) /\ IsDict(channels)
                    THEN AnyChannel(channels.kids, 1) ELSE "F"
      stockErr == \/ ~IsDict(avail)
                  \/ Truthy(channels) /\ ~IsDict(channels)
                  \/ any = "raise"
      in_stock == IF Truthy(channels) THEN JBool(any = "T") ELSE JNull
      got      == Get(variant, "prices")
      prices   == IF Truthy(got) THEN got ELSE JArr(<<>>)
      n        == Len(prices.kids)
      us       == {i \in 1..n : /\ IsDict(prices.kids[i].val)
                                 /\ Get(prices.kids[i].val, "country") = JStr(sUS)}
      bad      == {i \in 1..n : ~IsDict(prices.kids[i].val)}
      firstUS  == IF us = {} THEN n + 1 ELSE CHOOSE i \in us : \A j \in us : i <= j
      loopErr  == \E i \in bad : i < firstUS
      price    == IF us = {} THEN prices.kids[1].val ELSE prices.kids[firstUS].val
      value    == GetDefault(price, "value", EmptyDict)
      money    == IF IsDict(value) THEN ConvertMoney(value)
                  ELSE [raised |-> TRUE, price |-> JNull, currency |-> JNull]
  IN IF stockErr THEN Raised
     ELSE IF ~(IsList(prices) /\ n > 0) THEN Yield(in_stock, JNull, JNull)
     ELSE IF loopErr \/ money.raised THEN Raised
     ELSE Yield(in_stock, money.price, money.currency)

\* one pass of the loop over the script elements: what the script contributes
ScriptOutcome(script, sku) ==
  LET data       == script.body.data
      candidates == IF Truthy(sku) THEN FindSkuObjects(data, sku) ELSE <<>>
      variant    == FindVariantWithAvailability(data)
  IN IF script.body.k \in {"none", "text", "malformed"} THEN Skipped
     ELSE IF script.body.k = "deep" THEN Raised
     ELSE IF ~(IsDict(data) \/ IsList(data)) THEN Skipped
     ELSE IF candidates # <<>>
       THEN Chose(SortedFirst(candidates), SkuPath(SortedFirst(candidates)))
     ELSE IF ~Truthy(variant) THEN Skipped
     ELSE Chose(variant, VariantPath(variant))

\* _extract_sku_from_url
ExtractSkuFromUrl(url) ==
  LET part == LastSegment(RStripSlash(url))
  IN IF part # <<>> THEN JStr(part) ELSE JNull

----------------------------------------------------------------------------
(* The document, as BeautifulSoup presents it.  An element is              *)
(* [present, text], text being its get_text(strip=True); a meta tag is     *)
(* [tag, content], content being None when the attribute is missing.       *)
(* doc.body_text is the visible text outside the h1, the price elements    *)
(* and the buy button, which precede it in the document.                   *)

NoElement == [present |-> FALSE, text |-> <<>>]
Element(text) == [present |-> TRUE, text |-> text]
NoMeta == [tag |-> FALSE, content |-> JNull]
Meta(content) == [tag |-> TRUE, content |-> content]

sOutOfStockText == <<"o","u","t"," ","o","f"," ","s","t","o","c","k">>
sAddToCart == <<"a","d","d"," ","t","o"," ","c","a","r","t">>
sAddToBag == <<"a","d","d"," ","t","o"," ","b","a","g">>
sNotify == <<"n","o","t","i","f","y">>
sInstock == <<"i","n","s","t","o","c","k">>
sOutofstock == <<"o","u","t","o","f","s","t","o","c","k">>

\* the first element one of the three price selectors matches
PriceNode(d) ==
  LET hit == {i \in 1..Len(d.price_nodes) : d.price_nodes[i].present}
  IN IF hit = {} THEN NoElement
     ELSE d.price_nodes[CHOOSE i \in hit : \A j \in hit : i <= j]

RECURSIVE JoinAll(_)
JoinAll(parts) ==
  IF parts = <<>> THEN <<>> ELSE JoinSpace(Head(parts), JoinAll(Tail(parts)))

\* soup.get_text(" ", strip=True).lower()
PageText(d) ==
  Lower(JoinAll(<<d.h1.text>> \o [i \in 1..Len(d.price_nodes) |-> d.price_nodes[i].text]
                \o <<d.button.text, d.body_text>>))

\* the title lines of parse_status
TitleOf(d) ==
  LET meta_title == IF d.og_title.tag /\ Truthy(d.og_title.content)
                      THEN Strip(d.og_title.content.v) ELSE <<>>
  IN IF meta_title # <<>> THEN JStr(meta_title)
     ELSE IF d.h1.present /\ d.h1.text # <<>> THEN JStr(d.h1.text)
     ELSE JNull

\* the buy-button lines of parse_status, for in_stock still None
ButtonStock(d) ==
  LET button_text == Lower(d.button.text)
  IN IF ~d.button.present THEN JNull
     ELSE IF Contains(button_text, sOutOfStockText) THEN JBool(FALSE)
     ELSE IF Contains(button_text, sAddToCart) \/ Contains(button_text, sAddToBag)
       THEN JBool(TRUE)
     ELSE IF Contains(button_text, sNotify) THEN JBool(FALSE)
     ELSE JNull

\* a variant of TokenStock in which the token fills in_stock only while unknown
TokenStockFillsOnly(token, in_stock) ==
  IF ~IsNone(in_stock) THEN in_stock
  ELSE IF Contains(Lower(token), sInstock) THEN JBool(TRUE)
  ELSE IF Contains(Lower(token), sOutofstock) THEN JBool(FALSE)
  ELSE in_stock

\* the availability_raw lines of parse_status, for a truthy string token: the
\* in_stock they leave
TokenStock(token, in_stock) ==
  IF Contains(Lower(token), sInstock) THEN JBool(TRUE)
  ELSE IF Contains(Lower(token), sOutofstock) THEN JBool(FALSE)
  ELSE in_stock

\* the full-text lines of parse_status, for in_stock still None
TextStock(text) ==
  IF Contains(text, sOutOfStockText) THEN JBool(FALSE)
  ELSE IF Contains(text, sAddToCart) \/ Contains(text, sAddToBag) THEN JBool(TRUE)
  ELSE JNull

\* the price fallback of parse_status, for price still None
DomPrice(d) ==
  LET price_node == PriceNode(d)
  IN IF price_node.present
       THEN (IF price_node.text # <<>> THEN JStr(price_node.text) ELSE JNull)
     ELSE IF d.meta_price.tag /\ Truthy(d.meta_price.content)
       THEN JStr(Strip(d.meta_price.content.v))
     ELSE IF d.og_price.tag THEN d.og_price.content
     ELSE JNull

\* the currency fallback of parse_status, for currency still None
DomCurrency(d) ==
  IF d.meta_currency.tag /\ Truthy(d.meta_currency.content)
    THEN JStr(Strip(d.meta_currency.content.v))
    ELSE JNull

NoStatus ==
  [name |-> <<>>, url |-> <<>>, in_stock |-> JNull, price |-> JNull, currency |-> JNull,
   availability_raw |-> JNull]

----------------------------------------------------------------------------
(* parse_status, one action per stage *)

VARIABLES
  doc,               \* the document, its URL and the fallback name
  pc,                \* the stage parse_status is at; "done", "raised" at its end
  title, availability_raw, price, currency, in_stock,
  sku, script_i,     \* _extract_from_inline_json: target SKU, loop position
  inline,            \* what _extract_from_inline_json returned
  result,            \* the ProductStatus returned
  products,          \* check_products: the configured URLs, in order
  state_file,        \* the state file: [exists, data], data a mapping by URL
  rpc,               \* where check_products is: "idle", "loop", "failed"
  run_i,             \* the product the loop is at
  state, new_state,  \* the mapping loaded, the mapping being built
  runs,              \* runs started
  fetched, sent,     \* this run: the status extracted and whether send_discord
                     \* was called, per product processed
  writes,            \* this run: the calls of save_state
  completed,         \* whether some run has completed
  fetched_before,    \* the statuses the last completed run before this one extracted
  file_at_start      \* the state file as the run found it

parse_vars == <<doc, pc, title, availability_raw, price, currency, in_stock, sku,
                script_i, inline, result>>
run_vars == <<products, state_file, rpc, run_i, state, new_state, runs, fetched, sent,
              writes, completed, fetched_before, file_at_start>>
vars == <<parse_vars, run_vars>>

ParseStart(d) ==
  /\ doc = d
  /\ pc = "title"
  /\ title = JNull /\ availability_raw = JNull /\ price = JNull /\ currency = JNull
  /\ in_stock = JNull /\ sku = JNull /\ script_i = 0
  /\ inline = Skipped
  /\ result = NoStatus

\* lines 201-209
Title ==
  /\ pc = "title"
  /\ title' = TitleOf(doc)
  /\ pc' = "jsonld"
  /\ UNCHANGED <<doc, availability_raw, price, currency, in_stock, sku, script_i,
                 inline, result, run_vars>>

\* lines 211-224: the JSON-LD locator, and whether the inline extractor runs
JsonLd ==
  /\ pc = "jsonld"
  /\ LET ld == ExtractJsonLd(doc.scripts)
         r  == ParseProductFromJsonLd(ld.items)
     IN IF ld.raised \/ r.raised
          THEN /\ pc' = "raised"
               /\ UNCHANGED <<availability_raw, price, currency, sku, script_i>>
          ELSE /\ availability_raw' = r.availability
               /\ price' = r.price
               /\ currency' = r.currency
               /\ IF IsNone(r.availability) /\ IsNone(r.price)
                    THEN /\ sku' = ExtractSkuFromUrl(doc.url)
                         /\ script_i' = 1
                         /\ pc' = "inline"
                    ELSE /\ pc' = "button"
                         /\ UNCHANGED <<sku, script_i>>
  /\ in_stock' = JNull
  /\ UNCHANGED <<doc, title, inline, result, run_vars>>

\* lines 124-189: one script element of the loop
ScanScript ==
  /\ pc = "inline"
  /\ script_i <= Len(doc.scripts)
  /\ LET out == ScriptOutcome(doc.scripts[script_i], sku)
     IN CASE out.kind = "skip"  -> /\ script_i' = script_i + 1
                                   /\ UNCHANGED <<pc, inline>>
          [] out.kind = "yield" -> /\ inline' = out
                                   /\ pc' = "merge"
                                   /\ UNCHANGED script_i
          [] OTHER              -> /\ inline' = out
                                   /\ pc' = "raised"
                                   /\ UNCHANGED script_i
  /\ UNCHANGED <<doc, title, availability_raw, price, currency, in_stock, sku, result,
                 run_vars>>

\* line 190: no script yielded
ScanEnd ==
  /\ pc = "inline"
  /\ script_i > Len(doc.scripts)
  /\ inline' = [Skipped EXCEPT !.kind = "none"]
  /\ pc' = "merge"
  /\ UNCHANGED <<doc, title, availability_raw, price, currency, in_stock, sku, script_i,
                 result, run_vars>>

\* lines 225-230
Merge ==
  /\ pc = "merge"
  /\ in_stock' = IF ~IsNone(inline.in_stock) THEN inline.in_stock ELSE in_stock
  /\ price' = IF ~IsNone(inline.price) THEN inline.price ELSE price
  /\ currency' = IF ~IsNone(inline.currency) THEN inline.currency ELSE currency
  /\ pc' = "button"
  /\ UNCHANGED <<doc, title, availability_raw, sku, script_i, inline, result, run_vars>>

\* a variant of Button in which the button text is applied whatever in_stock holds
ButtonAlways ==
  /\ pc = "button"
  /\ in_stock' = IF ~IsNone(ButtonStock(doc)) THEN ButtonStock(doc) ELSE in_stock
  /\ pc' = "token"
  /\ UNCHANGED <<doc, title, availability_raw, price, currency, sku, script_i, inline,
                 result, run_vars>>

\* lines 232-246
Button ==
  /\ pc = "button"
  /\ in_stock' = IF IsNone(in_stock) THEN ButtonStock(doc) ELSE in_stock
  /\ pc' = "token"
  /\ UNCHANGED <<doc, title, availability_raw, price, currency, sku, script_i, inline,
                 result, run_vars>>

\* lines 250-254: str.lower of a truthy token that is no string raises
Token ==
  /\ pc = "token"
  /\ IF Truthy(availability_raw) /\ ~IsStr(availability_raw)
       THEN pc' = "raised" /\ UNCHANGED in_stock
       ELSE /\ in_stock' = IF Truthy(availability_raw)
                             THEN TokenStock(availability_raw.v, in_stock) ELSE in_stock
            /\ pc' = "fulltext"
  /\ UNCHANGED <<doc, title, availability_raw, price, currency, sku, script_i, inline,
                 result, run_vars>>

\* a variant of FullText without the keyword search
FullTextSkipped ==
  /\ pc = "fulltext"
  /\ pc' = "price"
  /\ UNCHANGED <<doc, title, availability_raw, price, currency, in_stock, sku, script_i,
                 inline, result, run_vars>>

\* lines 248, 256-260
FullText ==
  /\ pc = "fulltext"
  /\ in_stock' = IF IsNone(in_stock) THEN TextStock(PageText(doc)) ELSE in_stock
  /\ pc' = "price"
  /\ UNCHANGED <<doc, title, availability_raw, price, currency, sku, script_i, inline,
                 result, run_vars>>

\* a variant of PriceFallback in which the DOM value replaces the price found
PriceFallbackAlways ==
  /\ pc = "price"
  /\ price' = DomPrice(doc)
  /\ pc' = "currency"
  /\ UNCHANGED <<doc, title, availability_raw, currency, in_stock, sku, script_i, inline,
                 result, run_vars>>

\* lines 262-278
PriceFallback ==
  /\ pc = "price"
  /\ price' = IF IsNone(price) THEN DomPrice(doc) ELSE price
  /\ pc' = "currency"
  /\ UNCHANGED <<doc, title, availability_raw, currency, in_stock, sku, script_i, inline,
                 result, run_vars>>

\* lines 280-283
CurrencyFallback ==
  /\ pc = "currency"
  /\ currency' = IF IsNone(currency) THEN DomCurrency(doc) ELSE currency
  /\ pc' = "return"
  /\ UNCHANGED <<doc, title, availability_raw, price, in_stock, sku, script_i, inline,
                 result, run_vars>>

\* lines 285-292
Return ==
  /\ pc = "return"
  /\ result' = [name |-> IF Truthy(title) THEN title.v ELSE doc.fallback_name,
                url |-> doc.url, in_stock |-> in_stock, price |-> price,
                currency |-> currency, availability_raw |-> availability_raw]
  /\ pc' = "done"
  /\ UNCHANGED <<doc, title, availability_raw, price, currency, in_stock, sku, script_i,
                 inline, run_vars>>

ParseNext ==
  \/ Title \/ JsonLd \/ ScanScript \/ ScanEnd \/ Merge \/ Button \/ Token \/ FullText
  \/ PriceFallback \/ CurrencyFallback \/ Return

----------------------------------------------------------------------------
(* check_products: runs over the configured products, with notify_all off  *)
(* and a webhook set                                                       *)

MaxRuns == 3

EmptyMap == [u \in {} |-> NoStatus]
NoFile == [exists |-> FALSE, data |-> EmptyMap]

\* load_state: json.load gives back what json.dump wrote
LoadState(file) == IF file.exists THEN file.data ELSE EmptyMap

\* save_state
SaveState(mapping) == [exists |-> TRUE, data |-> mapping]

\* state.get(url, {}).get(key)
PreviousGet(st, url, key) ==
  IF url \in DOMAIN st THEN st[url][key] ELSE JNull

\* new_state[url] = {...}
Snapshot(status) ==
  [in_stock |-> status.in_stock, price |-> status.price, currency |-> status.currency]
Store(mapping, url, snap) ==
  [u \in DOMAIN mapping \cup {url} |-> IF u = url THEN snap ELSE mapping[u]]

\* a variant of ShouldNotify that does not look at the stored state
ShouldNotifyInStock(status, st, url) == Truthy(status.in_stock)

\* should_notify with notify_all off
ShouldNotify(status, st, url) ==
  \/ Truthy(status.in_stock) /\ PreviousGet(st, url, "in_stock") # JBool(TRUE)
  \/ /\ Truthy(status.price)
     /\ Truthy(PreviousGet(st, url, "price"))
     /\ status.price # PreviousGet(st, url, "price")
     /\ Truthy(status.in_stock)

RunIdle ==
  /\ products = <<>> /\ state_file = NoFile /\ rpc = "idle" /\ run_i = 0
  /\ state = EmptyMap /\ new_state = EmptyMap /\ runs = 0
  /\ fetched = <<>> /\ sent = <<>> /\ writes = 0 /\ completed = FALSE
  /\ fetched_before = <<>> /\ file_at_start = NoFile

ParseIdle ==
  /\ doc = <<>> /\ pc = "idle"
  /\ title = JNull /\ availability_raw = JNull /\ price = JNull /\ currency = JNull
  /\ in_stock = JNull /\ sku = JNull /\ script_i = 0
  /\ inline = Skipped
  /\ result = NoStatus

\* the configured product lists: main refuses an empty one
Configs == {<<"u1">>, <<"u1", "u2">>, <<"u1", "u1">>}

\* what parse_status may return for a fetched page, as far as check_products
\* reads it
sUSD == <<"U","S","D">>
sFive == <<"5">>
sSix == <<"6">>
Statuses ==
  {[in_stock |-> s, price |-> q, currency |-> IF Truthy(q) THEN JStr(sUSD) ELSE JNull] :
     s \in {JNull, JBool(TRUE), JBool(FALSE)},
     q \in {JNull, JStr(<<>>), JStr(sFive), JStr(sSix)}}

RunStart(config) ==
  /\ products = config /\ state_file = NoFile /\ rpc = "idle" /\ run_i = 0
  /\ state = EmptyMap /\ new_state = EmptyMap /\ runs = 0
  /\ fetched = <<>> /\ sent = <<>> /\ writes = 0 /\ completed = FALSE
  /\ fetched_before = <<>> /\ file_at_start = NoFile

\* lines 342-343: a run starts, after a completed or a failed one
StartRun ==
  /\ rpc \in {"idle", "failed"}
  /\ runs < MaxRuns
  /\ state' = LoadState(state_file)
  /\ new_state' = EmptyMap
  /\ run_i' = 1
  /\ rpc' = "loop"
  /\ runs' = runs + 1
  /\ fetched' = <<>> /\ sent' = <<>> /\ writes' = 0
  /\ fetched_before' = IF rpc = "idle" /\ completed THEN fetched ELSE fetched_before
  /\ file_at_start' = state_file
  /\ UNCHANGED <<products, state_file, completed, parse_vars>>

\* lines 346-372: one product, fetched, parsed, stored and notified about
Process ==
  /\ rpc = "loop"
  /\ run_i <= Len(products)
  /\ \E status \in Statuses :
       /\ new_state' = Store(new_state, products[run_i], Snapshot(status))
       /\ fetched' = Append(fetched, status)
       /\ sent' = Append(sent, ShouldNotify(status, state, products[run_i]))
  /\ run_i' = run_i + 1
  /\ UNCHANGED <<products, state_file, rpc, state, runs, writes, completed,
                 fetched_before, file_at_start, parse_vars>>

\* lines 346-347: fetch_html or parse_status raises
FetchFails ==
  /\ rpc = "loop"
  /\ run_i <= Len(products)
  /\ rpc' = "failed"
  /\ UNCHANGED <<products, state_file, run_i, state, new_state, runs, fetched, sent,
                 writes, completed, fetched_before, file_at_start, parse_vars>>

\* lines 349-372: send_discord raises
SendFails ==
  /\ rpc = "loop"
  /\ run_i <= Len(products)
  /\ \E status \in Statuses :
       /\ ShouldNotify(status, state, products[run_i])
       /\ new_state' = Store(new_state, products[run_i], Snapshot(status))
  /\ rpc' = "failed"
  /\ UNCHANGED <<products, state_file, run_i, state, runs, fetched, sent, writes,
                 completed, fetched_before, file_at_start, parse_vars>>

\* line 374
Save ==
  /\ rpc = "loop"
  /\ run_i > Len(products)
  /\ state_file' = SaveState(new_state)
  /\ writes' = writes + 1
  /\ completed' = TRUE
  /\ rpc' = "idle"
  /\ UNCHANGED <<products, run_i, state, new_state, runs, fetched, sent, fetched_before,
                 file_at_start, parse_vars>>

NextRuns == StartRun \/ Process \/ FetchFails \/ SendFails \/ Save

InitRuns == ParseIdle /\ \E config \in Configs : RunStart(config)
SpecRuns == InitRuns /\ [][NextRuns]_vars

----------------------------------------------------------------------------
(* Bounded inputs: documents *)

MaxScripts == 2
MaxCandidates == 3
MaxChannels == 2

sA1 == <<"A","1">>
sB2 == <<"B","2">>
sEUR == <<"E","U","R">>
sDE == <<"D","E">>
sLens == <<"L","e","n","s">>
urlA1 == <<"s","/","A","1","/">>
urlNoSku == <<"/">>

\* sequences over pool of length at most n
RECURSIVE SeqsUpTo(_, _)
SeqsUpTo(pool, n) ==
  IF n = 0 THEN {<<>>}
  ELSE LET shorter == SeqsUpTo(pool, n - 1)
       IN shorter \cup {Append(q, x) : q \in {r \in shorter : Len(r) = n - 1}, x \in pool}

Num(n) == JNum(BToDec(BFromNat(n)))
Money(cent, fd, code) ==
  JObj(<<Mem("centAmount", cent), Mem("fractionDigits", fd), Mem("currencyCode", code)>>)
Plain(data) == Script(FALSE, "json", data)
Ld(data) == Script(TRUE, "json", data)
Product(offers) == JObj(<<Mem("@type", JStr(sProduct)), Mem("offers", offers)>>)

tInStock == <<"s","/","I","n","S","t","o","c","k">>
tOutOfStock == <<"O","u","t","O","f","S","t","o","c","k">>
tUpper == <<"I","N","S","T","O","C","K">>
tBoth == <<"I","n","S","t","o","c","k",",","O","u","t","O","f","S","t","o","c","k">>
tPreOrder == <<"P","r","e","O","r","d","e","r">>
sPrice1299 == <<"1","2","9","9",".","0","0">>

\* JSON-LD scripts
LdScripts == {
  Ld(Product(JObj(<<Mem("availability", JStr(tInStock)), Mem("price", JStr(sPrice1299)),
                   Mem("priceCurrency", JStr(sUSD))>>))),
  Ld(Product(JObj(<<Mem("availability", JStr(tOutOfStock))>>))),
  Ld(JArr(<<JObj(<<Mem("@type", JStr(sLens))>>),
            Product(JArr(<<JObj(<<Mem("price", Num(1299))>>)>>))>>)),
  Ld(Product(JObj(<<Mem("availability", JStr(tBoth)), Mem("priceCurrency", JStr(sEUR))>>))),
  Ld(Product(JObj(<<Mem("availability", JStr(tPreOrder))>>))),
  Ld(Product(JObj(<<Mem("availability", JStr(tUpper))>>))),
  Ld(Product(JObj(<<Mem("availability", Num(1))>>))),
  Ld(Product(JStr(sUSD))) }

\* inline scripts
FullSku ==
  JObj(<<Mem("sku", JStr(sA1)), Mem("price", Money(Num(129900), Num(2), JStr(sUSD))),
         Mem("isOnStock", JBool(TRUE))>>)
Channel(on, qty) == JObj(<<Mem("isOnStock", on), Mem("availableQuantity", qty)>>)
VariantOf(channels, prices) ==
  JObj(<<Mem("masterVariant",
             JObj(<<Mem("availability", JObj(<<Mem("channels", channels)>>)),
                    Mem("prices", prices)>>))>>)
InlineScripts == {
  Plain(FullSku),
  Plain(JArr(<<JObj(<<Mem("sku", JStr(sA1)), Mem("isOnStock", JBool(FALSE))>>)>>)),
  Plain(VariantOf(JObj(<<Mem("c1", Channel(JBool(TRUE), Num(3)))>>),
                  JArr(<<JObj(<<Mem("country", JStr(sDE)),
                                Mem("value", Money(Num(900), Num(2), JStr(sEUR)))>>),
                         JObj(<<Mem("country", JStr(sUS)),
                                Mem("value", Money(Num(5), Num(1), JStr(sUSD)))>>)>>))),
  Script(FALSE, "malformed", JNull) }

ParseScripts == LdScripts \cup InlineScripts

bAddToCart == <<"A","d","d"," ","t","o"," ","C","a","r","t">>
bOutOfStock == <<"O","u","t"," ","o","f"," ","S","t","o","c","k">>
bNotify == <<"N","o","t","i","f","y"," ","M","e">>
xHello == <<"H","i">>
xBoth == <<"O","U","T"," ","O","F"," ","S","T","O","C","K","."," ","A","d","d"," ","t","o",
           " ","c","a","r","t">>
xBag == <<"a","d","d"," ","t","o"," ","B","a","g">>
sNine == <<"$","9">>
sMetaPrice == <<" ","1","2",".","5","0"," ">>
sOgPrice == <<"1","3">>
sMetaCurrency == <<" ","U","S","D","\n">>
sTitle == <<" ","Z"," ","9"," ">>

Buttons == {NoElement, Element(bAddToCart), Element(bOutOfStock), Element(bNotify)}
BodyTexts == {xHello, bAddToCart, xBoth, xBag}
NoPriceNodes == <<NoElement, NoElement, NoElement>>

\* a document with scripts only
BareDoc(url, scripts) ==
  [url |-> url, fallback_name |-> sLens, scripts |-> scripts, og_title |-> NoMeta,
   h1 |-> NoElement, button |-> NoElement, body_text |-> <<>>,
   price_nodes |-> NoPriceNodes, meta_price |-> NoMeta, og_price |-> NoMeta,
   meta_currency |-> NoMeta]

ScriptLists == SeqsUpTo(ParseScripts, MaxScripts)

\* documents varying the availability evidence
StockDocs ==
  {[BareDoc(urlA1, ss) EXCEPT !.button = b, !.body_text = x] :
     ss \in ScriptLists, b \in Buttons, x \in BodyTexts}

\* documents varying the price and currency evidence
PriceDocs ==
  {[BareDoc(urlA1, ss) EXCEPT !.price_nodes = pn, !.meta_price = mp, !.og_price = op,
                              !.meta_currency = mc] :
     ss \in ScriptLists,
     pn \in {NoPriceNodes, <<NoElement, Element(sNine), Element(<<>>)>>,
             <<NoElement, NoElement, Element(<<>>)>>},
     mp \in {NoMeta, Meta(JStr(sMetaPrice))},
     op \in {NoMeta, Meta(JNull), Meta(JStr(sOgPrice))},
     mc \in {NoMeta, Meta(JStr(sMetaCurrency))}}

\* documents varying the title evidence
TitleDocs ==
  {[BareDoc(urlNoSku, <<>>) EXCEPT !.og_title = t, !.h1 = h] :
     t \in {NoMeta, Meta(JNull), Meta(JStr(sTitle)), Meta(JStr(<<" ">>))},
     h \in {NoElement, Element(<<>>), Element(xHello)}}

\* documents without scripts, varying all the DOM evidence
FallbackDocs ==
  {[BareDoc(urlA1, <<>>) EXCEPT !.button = b, !.body_text = x, !.price_nodes = pn,
                                !.meta_price = mp, !.og_price = op] :
     b \in Buttons, x \in BodyTexts,
     pn \in {NoPriceNodes, <<NoElement, Element(sNine), Element(<<>>)>>},
     mp \in {NoMeta, Meta(JStr(sMetaPrice))},
     op \in {NoMeta, Meta(JStr(sOgPrice))}}

Docs == StockDocs \cup PriceDocs \cup TitleDocs \cup FallbackDocs

----------------------------------------------------------------------------
(* Bounded inputs: documents for the inline extractor *)

\* a money mapping, its amount and its digits each absent (None) or given
MoneyOf(cent, fd) ==
  JObj((IF IsNone(cent) THEN <<>> ELSE <<Mem("centAmount", cent)>>)
       \o (IF IsNone(fd) THEN <<>> ELSE <<Mem("fractionDigits", fd)>>)
       \o <<Mem("currencyCode", JStr(sUSD))>>)

\* SKU candidates; the one at position pos carries amounts no other carries
CandKinds == {"sku", "price", "stock", "both", "prices", "qty", "nest", "broken", "other"}
CandAt(kind, pos) ==
  LET sku1  == Mem("sku", JStr(sA1))
      p(n)  == Mem("price", Money(Num(100 * pos + n), Num(2), JStr(sUSD)))
  IN CASE kind = "sku"    -> JObj(<<sku1>>)
       [] kind = "price"  -> JObj(<<sku1, p(1)>>)
       [] kind = "stock"  -> JObj(<<sku1, Mem("isOnStock", JBool(TRUE))>>)
       [] kind = "both"   -> JObj(<<p(2), Mem("isOnStock", JBool(FALSE)), sku1>>)
       [] kind = "prices" -> JObj(<<sku1, Mem("prices", JArr(<<>>))>>)
       [] kind = "qty"    -> JObj(<<sku1, Mem("availableQuantity", Num(3))>>)
       [] kind = "nest"   -> JObj(<<sku1, Mem("child", JObj(<<sku1, p(3)>>))>>)
       [] kind = "broken" -> JObj(<<sku1, Mem("price", MoneyOf(JStr(sNine), Num(pos)))>>)
       [] OTHER           -> JObj(<<Mem("sku", JStr(sB2)), p(4)>>)

CandidateScripts ==
  {Plain(JArr([i \in 1..Len(ks) |-> CandAt(ks[i], i)])) :
     ks \in SeqsUpTo(CandKinds, MaxCandidates)}

\* channel entries: the flag and the quantity each absent or given
Flags == {JNull, JBool(TRUE), JBool(FALSE)}
Quantities == {JNull, Num(0), Num(5), JNum(<<"-","1">>), JStr(sNine)}
Entry(on, qty) ==
  JObj((IF IsNone(on) THEN <<>> ELSE <<Mem("isOnStock", on)>>)
       \o (IF IsNone(qty) THEN <<>> ELSE <<Mem("availableQuantity", qty)>>))
ChannelEntries == {Entry(on, qty) : on \in Flags, qty \in Quantities} \cup {JStr(sUS)}
ChannelKey == <<"c1", "c2", "c3", "c4">>
ChannelMaps ==
  {JObj([i \in 1..Len(es) |-> Mem(ChannelKey[i], es[i])]) :
     es \in SeqsUpTo(ChannelEntries, MaxChannels)}

VariantScripts ==
  {Plain(VariantOf(cs, JArr(<<>>))) : cs \in ChannelMaps}
  \cup {Plain(JObj(<<Mem("masterVariant", JObj(<<Mem("prices", JNull)>>))>>)),
        Plain(JObj(<<Mem("masterVariant",
                         JObj(<<Mem("availability", JObj(<<Mem("on", JBool(TRUE))>>))>>))>>)),
        Plain(JObj(<<Mem("sku", JStr(sB2)), Mem("prices", JNull),
                     Mem("availability", JObj(<<Mem("channels", JNull)>>))>>))}

\* money mappings
s2p53 == <<"9","0","0","7","1","9","9","2","5","4","7","4","0","9","9","3">>
s1e17 == <<"1","0","0","0","0","0","0","0","0","0","0","0","0","0","0","0","0","1">>
CentAmounts ==
  {JNull, Num(0), Num(5), Num(1005), Num(129900), JNum(s2p53), JNum(s1e17),
   JNum(<<"-","2","5","0">>), JStr(sNine)}
FractionDigits == {JNull, Num(0), Num(1), Num(2), Num(3), JNum(<<"-","1">>)}
MoneyScripts ==
  {Plain(JObj(<<Mem("sku", JStr(sA1)), Mem("price", MoneyOf(c, fd))>>)) :
     c \in CentAmounts, fd \in FractionDigits}
  \cup {Plain(VariantOf(JObj(<<>>),
                        JArr(<<JObj(<<Mem("country", JStr(sDE)),
                                      Mem("value", Money(Num(1), Num(0), JStr(sEUR)))>>),
                               JObj(<<Mem("country", JStr(sUS)),
                                      Mem("value", MoneyOf(c, fd))>>)>>))) :
          c \in CentAmounts, fd \in FractionDigits}

\* scripts the scan skips, yields from, or breaks on
ScanScripts == {
  Script(FALSE, "malformed", JNull),
  Script(FALSE, "text", JNull),
  Script(FALSE, "none", JNull),
  Script(FALSE, "deep", JNull),
  Plain(JObj(<<Mem("a", Num(1))>>)),
  Plain(JObj(<<Mem("sku", JStr(sA1))>>)),
  Plain(FullSku),
  Ld(JObj(<<Mem("sku", JStr(sA1)), Mem("isOnStock", JBool(FALSE))>>)),
  Plain(VariantOf(JObj(<<Mem("c1", Channel(JBool(TRUE), Num(3)))>>),
                  JArr(<<JObj(<<Mem("value", Money(Num(900), Num(2), JStr(sEUR)))>>)>>))) }

InlineDocs ==
  {BareDoc(u, <<sc>>) : u \in {urlA1, urlNoSku},
                        sc \in CandidateScripts \cup VariantScripts \cup MoneyScripts}
  \cup {BareDoc(u, ss) : u \in {urlA1, urlNoSku},
                         ss \in SeqsUpTo(ScanScripts, MaxScripts + 1)}

Next == ParseNext

InitInline == (\E d \in InlineDocs : ParseStart(d)) /\ RunIdle
SpecInline == InitInline /\ [][Next]_vars

Init == (\E d \in Docs : ParseStart(d)) /\ RunIdle
Spec == Init /\ [][Next]_vars

----------------------------------------------------------------------------
(* Properties of parse_status *)

\* what the JSON-LD locator supplies for the document
LdOf == ParseProductFromJsonLd(ExtractJsonLd(doc.scripts).items)

\* what the inline extractor derives from the document's scripts: the outcome
\* of the first script that is not skipped, "none" when every script is
RECURSIVE FirstOutcome(_, _, _)
FirstOutcome(scripts, target, i) ==
  IF i > Len(scripts) THEN [Skipped EXCEPT !.kind = "none"]
  ELSE LET out == ScriptOutcome(scripts[i], target)
       IN IF out.kind = "skip" THEN FirstOutcome(scripts, target, i + 1) ELSE out
InlineOf == FirstOutcome(doc.scripts, ExtractSkuFromUrl(doc.url), 1)

\* the first of three values that is not None
Pick(a, b, c) == IF ~IsNone(a) THEN a ELSE IF ~IsNone(b) THEN b ELSE c

TokenHasInStock == IsStr(LdOf.availability) /\ Contains(Lower(LdOf.availability.v), sInstock)
TokenHasOutOfStock == IsStr(LdOf.availability) /\ Contains(LdOf.availability.v, tOutOfStock)
LdSilent == IsNone(LdOf.availability) /\ IsNone(LdOf.price)
InlineBoolean == InlineOf.kind = "yield" /\ InlineOf.in_stock.t = "bool"
NoPriceEvidence == ~PriceNode(doc).present /\ ~doc.meta_price.tag /\ ~doc.og_price.tag
TextFallbackCase ==
  /\ pc = "done" /\ doc.scripts = <<>> /\ ~doc.button.present
  /\ Contains(PageText(doc), sAddToCart)

\* C1: parse_status never ends in an error outcome, whatever the shapes of the
\* JSON-LD and inline-JSON values of the document.
C1_NeverRaises == pc # "raised"

\* C2, as stated: a returned record has in_stock = false when the first JSON-LD
\* Product's availability token contains "OutOfStock", and in_stock = true when
\* it contains "InStock" in any case.
C2_TokenAsStated ==
  pc = "done" =>
    /\ TokenHasOutOfStock => result.in_stock = JBool(FALSE)
    /\ TokenHasInStock => result.in_stock = JBool(TRUE)

\* C2, amended: a token containing "InStock" in any case gives in_stock = true;
\* a token containing "OutOfStock" and not "InStock" gives in_stock = false;
\* both whatever the button, the inline scripts and the page text say.
C2_TokenDecides ==
  pc = "done" =>
    /\ TokenHasOutOfStock /\ ~TokenHasInStock => result.in_stock = JBool(FALSE)
    /\ TokenHasInStock => result.in_stock = JBool(TRUE)

\* C2: an OutOfStock token overrode a buy button reading "Add to Cart"
C2_Witness ==
  /\ pc = "done" /\ TokenHasOutOfStock /\ ~TokenHasInStock
  /\ ButtonStock(doc) = JBool(TRUE)
  /\ result.in_stock = JBool(FALSE)

C4_InlineAsStated ==
  pc = "done" /\ InlineBoolean /\ ~TokenHasInStock /\ ~TokenHasOutOfStock =>
    result.in_stock = InlineOf.in_stock

\* C4, amended: when JSON-LD supplies neither an availability token nor a
\* price and the inline scripts yield a boolean in-stock value, the returned
\* in_stock is that boolean, whatever the button and the page text say.
C4_InlineOutranks ==
  pc = "done" /\ LdSilent /\ InlineBoolean => result.in_stock = InlineOf.in_stock

\* C4: an inline boolean was returned against a buy button saying the opposite
C4_Witness ==
  /\ pc = "done" /\ LdSilent /\ InlineBoolean
  /\ ~IsNone(ButtonStock(doc)) /\ ButtonStock(doc) # InlineOf.in_stock
  /\ result.in_stock = InlineOf.in_stock

\* C9, as stated: a document without scripts and without a buy button whose
\* visible text contains "add to cart" in any case yields in_stock = true and
\* price unknown.
C9_FallbackAsStated ==
  TextFallbackCase => result.in_stock = JBool(TRUE) /\ IsNone(result.price)

\* C9, amended: such a document yields in_stock = true when its text does not
\* contain "out of stock" and false when it does, and price unknown when it
\* has no price element and no price meta tag.
C9_Fallback ==
  TextFallbackCase =>
    /\ result.in_stock = JBool(~Contains(PageText(doc), sOutOfStockText))
    /\ NoPriceEvidence => IsNone(result.price)

\* C9: the page text alone decided in_stock = true, the price staying unknown
C9_Witness ==
  /\ TextFallbackCase /\ ~Contains(PageText(doc), sOutOfStockText) /\ NoPriceEvidence
  /\ result.in_stock = JBool(TRUE) /\ IsNone(result.price)

----------------------------------------------------------------------------
(* Properties of the inline extractor *)

\* the script the scan ended at, its SKU candidates and its variant
Returned == pc = "merge" /\ inline.kind = "yield"
Ended == pc \in {"merge", "raised"} /\ inline.kind \in {"yield", "raise"}
Candidates ==
  IF Truthy(sku) /\ script_i \in 1..Len(doc.scripts)
    THEN FindSkuObjects(doc.scripts[script_i].body.data, sku) ELSE <<>>
SkuPathTaken == Ended /\ Candidates # <<>>
VariantPathTaken ==
  /\ Ended /\ Candidates = <<>>
  /\ script_i \in 1..Len(doc.scripts) /\ doc.scripts[script_i].body.k = "json"
Variant == FindVariantWithAvailability(doc.scripts[script_i].body.data)
Keys(obj) == {obj.kids[i].k : i \in 1..Len(obj.kids)}

\* the money mapping converted: the selected candidate's price, or the value
\* of the variant's US price entry, of its first entry when it has none for US
ChosenEntry ==
  LET prices == Get(Variant, "prices")
      us     == {i \in 1..Len(prices.kids) :
                   Get(prices.kids[i].val, "country") = JStr(sUS)}
  IN IF ~IsList(prices) \/ prices.kids = <<>> THEN JNull
     ELSE IF us = {} THEN prices.kids[1].val
     ELSE prices.kids[CHOOSE i \in us : \A j \in us : i <= j].val
ConvertedMoney ==
  IF Candidates # <<>> THEN Get(inline.chosen, "price")
  ELSE IF IsDict(ChosenEntry) THEN Get(ChosenEntry, "value") ELSE JNull
NaturalOrAbsent(j) == IsNone(j) \/ (j.t = "num" /\ ~NumNegative(j))
ExactDecimal(cent, fd) ==
  JStr(PlacePoint(cent.v, IF IsNone(fd) THEN 2 ELSE SmallFromDec(fd.v)))

\* C5: whenever the inline extractor converts a money mapping whose centAmount
\* and fractionDigits are non-negative integers, fractionDigits counting as 2
\* when absent, the price string is exactly centAmount / 10^fractionDigits
\* with fractionDigits digits after the point, and the currency is the
\* mapping's currencyCode.
C5_ExactMoney ==
  Returned /\ IsDict(ConvertedMoney)
  /\ Get(ConvertedMoney, "centAmount").t = "num"
  /\ ~NumNegative(Get(ConvertedMoney, "centAmount"))
  /\ NaturalOrAbsent(Get(ConvertedMoney, "fractionDigits"))
  /\ (Has(ConvertedMoney, "fractionDigits")
        => ~IsNone(Get(ConvertedMoney, "fractionDigits")))
  =>
    /\ inline.price = ExactDecimal(Get(ConvertedMoney, "centAmount"),
                                   Get(ConvertedMoney, "fractionDigits"))
    /\ inline.currency = Get(ConvertedMoney, "currencyCode")

\* C6: on the SKU path the candidate selected is the first found among those
\* of the best rank, and what is returned is read from it; so of two
\* candidates, one carrying only sku and one carrying sku and price, the one
\* with price is selected in either order and its price is the one reported.
C6_TieBreak ==
  SkuPathTaken =>
    /\ \E i \in 1..Len(Candidates) :
         /\ inline.chosen = Candidates[i]
         /\ \A j \in 1..Len(Candidates) :
              /\ SortKey(Candidates[i]) <= SortKey(Candidates[j])
              /\ SortKey(Candidates[i]) = SortKey(Candidates[j]) => i <= j
    /\ \A i, j \in 1..Len(Candidates) :
         /\ Len(Candidates) = 2
         /\ Keys(Candidates[i]) = {"sku"}
         /\ Keys(Candidates[j]) = {"sku", "price"}
         => /\ inline.chosen = Candidates[j]
            /\ Returned =>
                 inline.price = ConvertMoney(Get(Candidates[j], "price")).price

\* C6: a candidate with a price was selected and its price reported though a
\* candidate with only sku came first
C6_Witness ==
  /\ SkuPathTaken /\ Returned /\ Len(Candidates) = 2
  /\ Keys(Candidates[1]) = {"sku"} /\ Keys(Candidates[2]) = {"sku", "price"}
  /\ inline.chosen = Candidates[2]
  /\ ~IsNone(inline.price)
  /\ inline.price = ConvertMoney(Get(Candidates[2], "price")).price

\* the channels map of the variant, None when there is none
ChannelsMap ==
  LET availability == Get(Variant, "availability")
  IN IF IsDict(availability) THEN Get(availability, "channels") ELSE JNull
Sellable(channel) ==
  /\ IsDict(channel)
  /\ Get(channel, "isOnStock") = JBool(TRUE)
  /\ Get(channel, "availableQuantity").t = "num"
  /\ Positive(Get(channel, "availableQuantity"))
GateValue ==
  IF ~IsDict(ChannelsMap) \/ ChannelsMap.kids = <<>> THEN JNull
  ELSE JBool(\E i \in 1..Len(ChannelsMap.kids) : Sellable(ChannelsMap.kids[i].val))

\* C7: on the variant path in_stock is unknown when the variant has no channels
\* map or an empty one; otherwise it is true exactly when some channel entry
\* has isOnStock true and availableQuantity > 0, an absent quantity counting
\* as 0, and false in every other case.  Stated for the variants without
\* prices, where only the stock computation runs.
C7_QuantityGate ==
  VariantPathTaken /\ ~Truthy(Get(Variant, "prices")) =>
    inline.kind = "yield" /\ inline.in_stock = GateValue

\* C7, for the calls that return: the same value.
C7_GateWhenReturned ==
  VariantPathTaken /\ Returned => inline.in_stock = GateValue

\* whether a script parses as JSON and yields a SKU match or a variant
Yielding(script) ==
  /\ script.body.k = "json"
  /\ IsDict(script.body.data) \/ IsList(script.body.data)
  /\ \/ Truthy(sku) /\ FindSkuObjects(script.body.data, sku) # <<>>
     \/ Truthy(FindVariantWithAvailability(script.body.data))
YieldingScripts == {i \in 1..Len(doc.scripts) : Yielding(doc.scripts[i])}

\* C8: the scan of the inline extractor ends at the first script that parses
\* as JSON and yields a SKU match or a variant, every script before it being
\* skipped without aborting, and returns what that script gives; when no
\* script yields it runs to the end and returns three unknowns.
C8_FirstYieldDecides ==
  pc \in {"merge", "raised"} /\ script_i > 0 =>
    IF YieldingScripts = {}
      THEN /\ pc = "merge" /\ inline.kind = "none"
           /\ IsNone(inline.in_stock) /\ IsNone(inline.price) /\ IsNone(inline.currency)
      ELSE /\ script_i \in YieldingScripts
           /\ \A i \in YieldingScripts : script_i <= i
           /\ pc = "merge" => inline = ScriptOutcome(doc.scripts[script_i], sku)

\* C8, for the calls that return: what is returned is what the first script
\* not skipped gives, three unknowns when every script is skipped.
C8_DecidesWhenReturned ==
  pc = "merge" =>
    /\ inline = InlineOf
    /\ inline.kind = "none" =>
         /\ script_i = Len(doc.scripts) + 1
         /\ IsNone(inline.in_stock) /\ IsNone(inline.price) /\ IsNone(inline.currency)
    /\ inline.kind = "yield" =>
         /\ script_i \in YieldingScripts
         /\ \A i \in YieldingScripts : script_i <= i

----------------------------------------------------------------------------
(* Properties of check_products *)

\* what the last completed run stored, as the current run found it
Stored(url, key) == PreviousGet(LoadState(file_at_start), url, key)
Urls == {products[i] : i \in 1..Len(products)}
LastWith(url) ==
  CHOOSE i \in 1..Len(products) :
    products[i] = url /\ \A j \in 1..Len(products) : products[j] = url => j <= i
UrlOfItsOwn(i) == \A j \in 1..Len(products) : products[j] = products[i] => j = i
FileUntouched == rpc \in {"loop", "failed"} => state_file = file_at_start /\ writes = 0
WrittenOnce == rpc = "idle" /\ completed => writes = 1 /\ Len(fetched) = Len(products)

\* C10, as stated: the state file is written once, after the last product,
\* with the snapshot of each configured product; a product is notified exactly
\* when it is in stock and the stored in_stock is not true or the stored and
\* the current price are both known and differ; a product with the same status
\* in two consecutive completed runs is not notified in the second; a run that
\* fails leaves the file as it was.
C10_AsStated ==
  /\ FileUntouched /\ WrittenOnce
  /\ rpc = "idle" /\ completed =>
       /\ DOMAIN state_file.data = Urls
       /\ \A i \in 1..Len(products) : state_file.data[products[i]] = Snapshot(fetched[i])
  /\ \A i \in 1..Len(sent) :
       sent[i] <=>
         /\ fetched[i].in_stock = JBool(TRUE)
         /\ \/ Stored(products[i], "in_stock") # JBool(TRUE)
            \/ /\ ~IsNone(Stored(products[i], "price")) /\ ~IsNone(fetched[i].price)
               /\ Stored(products[i], "price") # fetched[i].price
  /\ \A i \in 1..Len(sent) :
       completed /\ fetched_before # <<>> /\ fetched[i] = fetched_before[i] => ~sent[i]

\* C10, amended: the state file is written once, after the last product, with
\* one snapshot per configured URL, that of the last product with that URL; a
\* product is notified exactly when it is in stock and the stored in_stock of
\* its URL is not true or the stored and the current price are both known,
\* non-empty and different; a product whose URL no other product shares and
\* whose status is the same in two consecutive completed runs is not notified
\* in the second; a run that fails leaves the file as it was.
C10_NoRepeatedAlerts ==
  /\ FileUntouched /\ WrittenOnce
  /\ rpc = "idle" /\ completed =>
       /\ DOMAIN state_file.data = Urls
       /\ \A u \in Urls : state_file.data[u] = Snapshot(fetched[LastWith(u)])
  /\ \A i \in 1..Len(sent) :
       sent[i] <=>
         /\ fetched[i].in_stock = JBool(TRUE)
         /\ \/ Stored(products[i], "in_stock") # JBool(TRUE)
            \/ /\ Truthy(Stored(products[i], "price")) /\ Truthy(fetched[i].price)
               /\ Stored(products[i], "price") # fetched[i].price
  /\ \A i \in 1..Len(sent) :
       /\ completed /\ fetched_before # <<>> /\ fetched[i] = fetched_before[i]
       /\ UrlOfItsOwn(i)
       => ~sent[i]

\* C10: a second run completed after a completed run, found a product in stock
\* at the price stored, and sent nothing for it
C10_Witness ==
  /\ rpc = "idle" /\ completed /\ runs = 2 /\ writes = 1
  /\ fetched_before # <<>> /\ fetched[1] = fetched_before[1]
  /\ fetched[1].in_stock = JBool(TRUE) /\ Truthy(fetched[1].price)
  /\ UrlOfItsOwn(1)
  /\ ~sent[1]

====
